---- MODULE Spec2Model ----
(***************************************************************************)
(* StockPro: the point-of-sale checkout (POSView.post) with its FEFO      *)
(* consumption of stock batches (Lote), the stock receipt and batch        *)
(* deletion views and the cash closing (RealizarCierreView.post), over     *)
(* the SQLite database the project is configured with                      *)
(* (settings.DATABASES).                                                   *)
(*                                                                         *)
(* Numbers.  A DecimalField is kept as an integer number of its smallest   *)
(* unit: quantities (decimal_places=3) in thousandths, money               *)
(* (decimal_places=2) in cents.  A product quantity x price is therefore   *)
(* an integer number of 1/100000, and storing it in a money column rounds  *)
(* it to cents the way Django's format_number does (quantize, half-even).  *)
(*                                                                         *)
(* Database.  Every request thread has its own SQLite connection.  Inside  *)
(* transaction.atomic() Django has issued BEGIN (deferred): the first      *)
(* SELECT takes the file's SHARED lock and keeps it until COMMIT or        *)
(* ROLLBACK, the first write needs the RESERVED lock, which a connection   *)
(* that already reads is refused at once ("database is locked") while      *)
(* another connection holds it, and COMMIT needs every other connection's  *)
(* SHARED lock gone.  db is the committed database, wdb the database as    *)
(* the connection holding RESERVED sees it (equal to db when none does).   *)
(***************************************************************************)
EXTENDS Integers, Sequences, FiniteSets, TLC

VARIABLES
    db,     \* the committed database: lotes, ventas, detalles, cierres
    wdb,    \* the writer's view: db plus the uncommitted writes
    lock,   \* lock[p]: the SQLite lock of p's connection
    pc,     \* pc[p]: where request p is in POSView.post
    req,    \* req[p]: the JSON body of the request (data)
    loc,    \* loc[p]: the handler's local variables
    resp    \* resp[p]: the JsonResponse returned

vars == <<db, wdb, lock, pc, req, loc, resp>>

----------------------------------------------------------------------------
(* Bounds of the model. *)

\* Stock receipts accepted in one behaviour (rows ever inserted in Lote).
MaxLotes == 2
\* Sales (Venta rows) committed in one behaviour.
MaxVentas == 1
\* Entries of one cart (keys of data['items']).
MaxItems == 2

\* Request threads.
Procs == {1, 2}

\* Thousandths per unit of quantity: Lote.cantidad_actual keeps 3 decimals.
Milesimas == 1000

\* fecha_vencimiento IS NULL.
NULL == -1

\* Rows of Producto; the catalogue does not change in this model.
Productos == {1, 2}
\* Keys of data['items'] a client may send.  Producto.objects.get(id=key)
\* converts the key with int(): "1" and "01" name product 1, "7" no product.
CartKeys == {"1", "01", "2", "7"}
\* Quantities of a cart entry (thousandths): negative, zero, one and a half.
CartQuantities == {-1000, 0, 1500}
\* Unit prices of a cart entry (cents).
CartPrices == {99}
\* data['discount'] (cents): negative, none, small, more than any cart is worth.
Discounts == {-50, 0, 50, 900}
\* Rows of MetodoPago after the set-up, and rows of Cliente.
MetodosPago == {1, 2}
Clientes == {1}
\* data['metodoPagoId']: 1 is a row of MetodoPago, 9 is not.
MetodoPagoIds == {1, 9}
\* data['clienteId']: absent (0), a row of Cliente, or no row.
ClienteIds == {0, 1, 9}

\* What a stock receipt form may carry.
LoteCantidades == {1000, 2000}
LoteCostos == {1000, 1001}
LoteFechas == {NULL, 1, 2}

\* timezone.now().date() where the behaviours look at it: day 1 is past.
Hoy == 2

\* monto_<id> of the closing form (cents): nothing counted, or 1.48.
MontosContados == {0, 148}

----------------------------------------------------------------------------
(* Decimal arithmetic. *)

\* A faulty min that ignores what the batch holds; C7_Scenario tells it
\* from Min.
Primero(a, b) == a

Min(a, b) == IF a <= b THEN a ELSE b

\* n / d rounded to an integer, ties to the even neighbour (d > 0): what
\* format_number's quantize does under the default ROUND_HALF_EVEN.
RoundHalfEvenPos(n, d) ==
    LET q == n \div d
        r == n - q * d
    IN  IF 2 * r < d THEN q
        ELSE IF 2 * r > d THEN q + 1
        ELSE IF q % 2 = 0 THEN q ELSE q + 1

RoundHalfEven(n, d) ==
    IF d > 0 THEN RoundHalfEvenPos(n, d) ELSE RoundHalfEvenPos(-n, -d)

----------------------------------------------------------------------------
(* The tables. *)

\* The database after the migrations: no batch, no sale.  lotes maps the
\* ids of the Lote rows to the rows; nLotes counts the ids handed out
\* (AUTOINCREMENT never reuses one); ventas and detalles are the Venta and
\* DetalleVenta rows in id order, cierres and detalles_cierre the CierreCaja
\* and DetalleCierre rows, metodos the ids of the MetodoPago rows and activos
\* those with is_active set (the default).  consumos is not a table:
\* consumos[k] records
\* what the loop over the batches took for the line detalles[k], as a set of
\* [lote, cantidad, precio_compra]; it is written and rolled back with the
\* line, and nothing reads it but the properties below.
EmptyDb == [lotes |-> <<>>, nLotes |-> 0, ventas |-> <<>>, detalles |-> <<>>,
            consumos |-> <<>>, cierres |-> <<>>, detalles_cierre |-> {},
            metodos |-> MetodosPago, activos |-> MetodosPago]

\* A Lote row as the receipt form saves it.
NuevoLote(producto, cantidad, costo, fecha) ==
    [producto |-> producto, cantidad_actual |-> cantidad,
     precio_compra |-> costo, fecha_vencimiento |-> fecha]

\* Producto.objects.get(id=product_id): the product, or 0 for DoesNotExist.
ProductoGet(key) ==
    CASE key = "1" -> 1
      [] key = "01" -> 1
      [] key = "2" -> 2
      [] OTHER -> 0

RECURSIVE SumCantidad(_, _)
SumCantidad(lotes, ids) ==
    IF ids = {} THEN 0
    ELSE LET l == CHOOSE x \in ids : TRUE
         IN  lotes[l].cantidad_actual + SumCantidad(lotes, ids \ {l})

\* A faulty filter that forgets the product; C10_FirstOffender tells it from
\* ConStock.
ConStockDeTodos(lotes, producto) ==
    {l \in DOMAIN lotes : lotes[l].cantidad_actual > 0}

\* Lote.objects.filter(producto=producto, cantidad_actual__gt=0)
ConStock(lotes, producto) ==
    {l \in DOMAIN lotes : lotes[l].producto = producto /\ lotes[l].cantidad_actual > 0}

\* .aggregate(total=Sum('cantidad_actual'))['total'] or Decimal('0.00')
StockTotal(lotes, producto) == SumCantidad(lotes, ConStock(lotes, producto))

\* A faulty order, latest expiry first; C5_Fefo tells it from FechaAntes.
FechaDespues(a, b) == /\ a # NULL
                      /\ (b = NULL \/ b < a)

\* ORDER BY fecha_vencimiento ASC on SQLite: a NULL sorts before every date.
FechaAntes(a, b) == /\ b # NULL
                    /\ (a = NULL \/ a < b)

\* .order_by('fecha_vencimiento'): the rows with stock in ascending key; rows
\* with equal keys come in an order SQL leaves open.
LotesDisponibles(lotes, producto) ==
    LET ids == ConStock(lotes, producto)
        n == Cardinality(ids)
    IN  {s \in [1..n -> ids] :
            /\ \A i, j \in 1..n : i # j => s[i] # s[j]
            /\ \A i, j \in 1..n :
                  i < j => ~FechaAntes(lotes[s[j]].fecha_vencimiento,
                                       lotes[s[i]].fecha_vencimiento)}

\* The loop over lotes_disponibles: from the k-th batch on, take
\* min(cantidad_a_vender, lote.cantidad_actual), save the batch, add to the
\* cost, until nothing is left to sell or the batches end.
RECURSIVE Descontar(_, _, _, _, _)
Descontar(lotes, orden, k, cantidad_a_vender, costo_total_ponderado) ==
    IF k > Len(orden) \/ cantidad_a_vender <= 0
    THEN [lotes |-> lotes, costo |-> costo_total_ponderado, resto |-> cantidad_a_vender]
    ELSE LET lote == orden[k]
             cantidad_a_descontar == Min(cantidad_a_vender, lotes[lote].cantidad_actual)
         IN  Descontar([lotes EXCEPT ![lote].cantidad_actual = @ - cantidad_a_descontar],
                       orden, k + 1,
                       cantidad_a_vender - cantidad_a_descontar,
                       costo_total_ponderado + cantidad_a_descontar * lotes[lote].precio_compra)

\* subtotal_calculado: the sum of price * quantity over the cart, in 1/100000.
RECURSIVE SubtotalCalculado(_, _)
SubtotalCalculado(items, k) ==
    IF k > Len(items) THEN 0
    ELSE items[k].price * items[k].quantity + SubtotalCalculado(items, k + 1)

\* A faulty reading of the discount that keeps a negative value;
\* C30_DiscountNeverRaises tells it from DescuentoInput.
DescuentoRecibido(discount) == discount

\* descuento_input < 0 becomes 0.
DescuentoInput(discount) == IF discount < 0 THEN 0 ELSE discount

\* A faulty total that may go below zero; C9_RoundedTotal tells it from
\* TotalFinal.
TotalSinPiso(items, descuento_input) ==
    SubtotalCalculado(items, 1) - descuento_input * Milesimas

\* total_final = subtotal_calculado - descuento_input, 0 if negative (1/100000).
TotalFinal(items, descuento_input) ==
    LET t == SubtotalCalculado(items, 1) - descuento_input * Milesimas
    IN  IF t < 0 THEN 0 ELSE t

\* A money column stores a value given in 1/100000 rounded to cents.
GuardarDinero(x) == RoundHalfEven(x, Milesimas)

\* Venta.objects.create(total, descuento, metodo_pago, vendedor, cliente):
\* cierre is left NULL (0).
NuevaVenta(total_final, descuento_input, metodo_pago, vendedor, cliente) ==
    [total |-> GuardarDinero(total_final), descuento |-> descuento_input,
     metodo_pago |-> metodo_pago, vendedor |-> vendedor, cliente |-> cliente,
     cierre |-> 0]

\* A faulty storage of the average that cuts the decimals instead of
\* rounding; C6_RoundedAverage tells it from PrecioCompraPromedio.
Truncar(costo_total_ponderado, cantidad_inicial_necesaria) ==
    costo_total_ponderado \div cantidad_inicial_necesaria

\* precio_compra_promedio as the column keeps it: costo_total_ponderado /
\* cantidad_inicial_necesaria, rounded to cents.
PrecioCompraPromedio(costo_total_ponderado, cantidad_inicial_necesaria) ==
    RoundHalfEven(costo_total_ponderado, cantidad_inicial_necesaria)

\* DetalleVenta.objects.create(...) and DetalleVenta.save: subtotal =
\* cantidad * precio_unitario_momento, stored with 2 decimals.
NuevoDetalle(venta, producto, cantidad, precio_unitario, precio_compra) ==
    [venta |-> venta, producto |-> producto, cantidad |-> cantidad,
     precio_unitario_momento |-> precio_unitario,
     precio_compra_momento |-> precio_compra,
     subtotal |-> GuardarDinero(cantidad * precio_unitario)]

----------------------------------------------------------------------------
(* Requests. *)

\* One entry of data['items'].
Items == [key : CartKeys, quantity : CartQuantities, price : CartPrices]

\* data['items']: a JSON object, so its keys are distinct; the handler
\* walks it in the order the client wrote it.
Carts ==
    {c \in UNION {[1..m -> Items] : m \in 0..MaxItems} :
        \A i, j \in DOMAIN c : i # j => c[i].key # c[j].key}

\* The rest of the body: data['metodoPagoId'], data['clienteId'], data['discount'].
Pagos == [metodoPagoId : MetodoPagoIds, clienteId : ClienteIds, discount : Discounts]

\* The fields of a valid LoteForm, and two quantities the form refuses.
LoteForms == [producto : Productos, cantidad_actual : LoteCantidades \cup {0, -1000},
              precio_compra : LoteCostos, fecha_vencimiento : LoteFechas]

NoReq == <<>>
NoLoc == [i |-> 0, venta |-> 0]
NoResp == [status |-> "none", kind |-> "none", producto |-> 0,
           solicitado |-> 0, disponible |-> 0]

\* {'status': 'success', 'modal_html': ...}
Success == [NoResp EXCEPT !.status = "success"]
\* 'Uno de los componentes de la venta no fue encontrado.' (400)
NotFound == [NoResp EXCEPT !.status = "error", !.kind = "NotFound"]
\* "Stock insuficiente para {nombre}. Solicitado: ..., Disponible: ..." (400)
StockInsuficiente(producto, solicitado, disponible) ==
    [status |-> "error", kind |-> "StockInsuficiente", producto |-> producto,
     solicitado |-> solicitado, disponible |-> disponible]
\* 'Ocurrio un error inesperado al procesar la venta.' (500)
Unexpected == [NoResp EXCEPT !.status = "error", !.kind = "Unexpected"]

Idle ==
    /\ lock = [p \in Procs |-> "none"]
    /\ pc = [p \in Procs |-> "idle"]
    /\ req = [p \in Procs |-> NoReq]
    /\ loc = [p \in Procs |-> NoLoc]
    /\ resp = [p \in Procs |-> NoResp]

Init ==
    /\ db = EmptyDb
    /\ wdb = EmptyDb
    /\ Idle

----------------------------------------------------------------------------
(* POSView.post, one action per database step. *)

\* A database that lets a writer commit while another connection still
\* reads the old rows; C2_CommittedSerial and C13_NoDoubleSettlement tell it
\* from OthersLocked.
NadieLee(p) == FALSE

OthersReserved(p) == \E q \in Procs \ {p} : lock[q] = "reserved"
OthersLocked(p) == \E q \in Procs \ {p} : lock[q] # "none"
NoLocks == \A q \in Procs : lock[q] = "none"

\* A faulty failure path that keeps the writes made so far (no atomic
\* block); C1_AllOrNothing tells it from Rollback.
SinRollback(p, r) ==
    /\ db' = wdb
    /\ lock' = [lock EXCEPT ![p] = "none"]
    /\ pc' = [pc EXCEPT ![p] = "done"]
    /\ resp' = [resp EXCEPT ![p] = r]
    /\ UNCHANGED <<wdb, req, loc>>

\* An exception leaves the with transaction.atomic() block: ROLLBACK, the
\* locks are released, and the except clauses turn it into the response r.
\* Only the connection that wrote has writes to lose.
Rollback(p, r) ==
    /\ wdb' = IF lock[p] = "reserved" THEN db ELSE wdb
    /\ lock' = [lock EXCEPT ![p] = "none"]
    /\ pc' = [pc EXCEPT ![p] = "done"]
    /\ resp' = [resp EXCEPT ![p] = r]
    /\ UNCHANGED <<db, req, loc>>

\* json.loads(request.body); items = data.get('items', {}); the block
\* with transaction.atomic() is entered (BEGIN takes no lock yet).
PosStart(p, carts, max) ==
    /\ pc[p] = "idle"
    /\ Len(db.ventas) < max
    /\ \E items \in carts :
          /\ req' = [req EXCEPT ![p] = items]
          /\ pc' = [pc EXCEPT ![p] = IF items = <<>> THEN "crear" ELSE "validar"]
          /\ loc' = [loc EXCEPT ![p] = [i |-> 1, venta |-> 0]]
    /\ UNCHANGED <<db, wdb, lock, resp>>

\* Step 1, one cart entry: the product is fetched, its stock summed over the
\* batches with stock, and the requested quantity compared with it.
PosValidar(p) ==
    /\ pc[p] = "validar"
    /\ LET item == req[p][loc[p].i]
           producto == ProductoGet(item.key)
           cantidad_solicitada == item.quantity
           stock_total == StockTotal(db.lotes, producto)
       IN  IF producto = 0
           THEN Rollback(p, NotFound)
           ELSE IF cantidad_solicitada > stock_total
           THEN Rollback(p, StockInsuficiente(producto, cantidad_solicitada, stock_total))
           ELSE /\ lock' = [lock EXCEPT ![p] = "shared"]
                /\ IF loc[p].i = Len(req[p])
                   THEN /\ pc' = [pc EXCEPT ![p] = "crear"]
                        /\ loc' = loc
                   ELSE /\ loc' = [loc EXCEPT ![p].i = @ + 1]
                        /\ pc' = pc
                /\ UNCHANGED <<db, wdb, req, resp>>

\* Step 2: the payment method and the customer are fetched, the total is
\* computed from the cart and the Venta row inserted.  The insert is the
\* transaction's first write.  data['metodoPagoId'], data['clienteId'] and
\* data['discount'] are read here and nowhere else, so they are drawn here.
PosCrearVenta(p, pagos) ==
    /\ pc[p] = "crear"
    /\ \E data \in pagos :
          LET descuento_input == DescuentoInput(data.discount)
              total_final == TotalFinal(req[p], descuento_input)
              venta == NuevaVenta(total_final, descuento_input, data.metodoPagoId,
                                  p, data.clienteId)
          IN  IF data.metodoPagoId \notin db.metodos
              THEN Rollback(p, NotFound)
              ELSE IF data.clienteId # 0 /\ data.clienteId \notin Clientes
              THEN Rollback(p, NotFound)
              ELSE IF OthersReserved(p)
              THEN Rollback(p, Unexpected)
              ELSE /\ wdb' = [db EXCEPT !.ventas = Append(@, venta)]
                   /\ lock' = [lock EXCEPT ![p] = "reserved"]
                   /\ loc' = [loc EXCEPT ![p] = [i |-> 1, venta |-> Len(db.ventas) + 1]]
                   /\ pc' = [pc EXCEPT ![p] = IF req[p] = <<>> THEN "commit" ELSE "fefo"]
                   /\ UNCHANGED <<db, req, resp>>

\* What the loop took from each batch, read off the batches before and after.
Consumo(antes, despues) ==
    {[lote |-> l, cantidad |-> antes[l].cantidad_actual - despues[l].cantidad_actual,
      precio_compra |-> antes[l].precio_compra] :
        l \in {x \in DOMAIN antes : antes[x].cantidad_actual # despues[x].cantidad_actual}}

\* Step 3, one cart entry: the product's batches with stock in expiry
\* order, the loop that takes from them, the average cost and the
\* DetalleVenta row.  A quantity of 0 makes the division raise
\* decimal.InvalidOperation, which is not a ValueError.
FefoItem(p, item, orden) ==
    LET producto == ProductoGet(item.key)
        cantidad_a_vender == item.quantity
        cantidad_inicial_necesaria == cantidad_a_vender
        r == Descontar(wdb.lotes, orden, 1, cantidad_a_vender, 0)
        detalle == NuevoDetalle(loc[p].venta, producto, cantidad_inicial_necesaria,
                                item.price,
                                PrecioCompraPromedio(r.costo, cantidad_inicial_necesaria))
    IN  IF cantidad_inicial_necesaria = 0
        THEN Rollback(p, Unexpected)
        ELSE /\ wdb' = [wdb EXCEPT !.lotes = r.lotes,
                                   !.detalles = Append(@, detalle),
                                   !.consumos = Append(@, Consumo(wdb.lotes, r.lotes))]
             /\ IF loc[p].i = Len(req[p])
                THEN /\ pc' = [pc EXCEPT ![p] = "commit"]
                     /\ loc' = loc
                ELSE /\ loc' = [loc EXCEPT ![p].i = @ + 1]
                     /\ pc' = pc
             /\ UNCHANGED <<db, lock, req, resp>>

PosFefo(p) ==
    /\ pc[p] = "fefo"
    /\ LET item == req[p][loc[p].i]
       IN  \E orden \in LotesDisponibles(wdb.lotes, ProductoGet(item.key)) :
              FefoItem(p, item, orden)

\* The atomic block ends: COMMIT, once no other connection reads.
PosCommit(p) ==
    /\ pc[p] = "commit"
    /\ ~OthersLocked(p)
    /\ db' = wdb
    /\ lock' = [lock EXCEPT ![p] = "none"]
    /\ pc' = [pc EXCEPT ![p] = "done"]
    /\ resp' = [resp EXCEPT ![p] = Success]
    /\ UNCHANGED <<wdb, req, loc>>

\* COMMIT waits for the other connections' SHARED locks; when the wait
\* outlasts the connection's timeout it raises "database is locked".
PosCommitLocked(p) ==
    /\ pc[p] = "commit"
    /\ OthersLocked(p)
    /\ Rollback(p, Unexpected)

\* The response has been sent; the thread takes the next request.
PosReturn(p) ==
    /\ pc[p] = "done"
    /\ pc' = [pc EXCEPT ![p] = "idle"]
    /\ req' = [req EXCEPT ![p] = NoReq]
    /\ loc' = [loc EXCEPT ![p] = NoLoc]
    /\ resp' = [resp EXCEPT ![p] = NoResp]
    /\ UNCHANGED <<db, wdb, lock>>

----------------------------------------------------------------------------
(* POSView.post on a body whose discount, quantity or price is text that   *)
(* Decimal() cannot parse.  Each reads the field where the view first      *)
(* parses it; Decimal() raises InvalidOperation, an ArithmeticError.        *)

\* No response of the view: the exception leaves post().
Escapa == [NoResp EXCEPT !.status = "exception", !.kind = "InvalidOperation"]

\* data['discount'] is text: Decimal(str(...)) raises before the try block
\* of the checkout is entered, and 'except (ValueError, TypeError)' does not
\* catch it.  Nothing has been read or written.
PosDescuentoNoNumerico(p) ==
    /\ pc[p] = "idle"
    /\ pc' = [pc EXCEPT ![p] = "done"]
    /\ resp' = [resp EXCEPT ![p] = Escapa]
    /\ UNCHANGED <<db, wdb, lock, req, loc>>

\* item_data['quantity'] of the entry under validation is text: the product
\* is fetched, then Decimal(str(...)) raises inside the atomic block and
\* 'except Exception' answers.
PosCantidadNoNumerica(p) ==
    /\ pc[p] = "validar"
    /\ ProductoGet(req[p][loc[p].i].key) # 0
    /\ Rollback(p, Unexpected)

\* item_data['price'] of an entry is text: the validation has passed, the
\* payment method and the customer are fetched, then Decimal(str(...)) raises
\* while the total is computed, before the Venta row is inserted.
PosPrecioNoNumerico(p, pagos) ==
    /\ pc[p] = "crear"
    /\ req[p] # <<>>
    /\ \E data \in pagos :
          /\ data.metodoPagoId \in db.metodos
          /\ data.clienteId = 0 \/ data.clienteId \in Clientes
    /\ Rollback(p, Unexpected)

----------------------------------------------------------------------------
(* The stock views.  Each is one short write transaction: it commits when   *)
(* no other connection holds a lock, and changes nothing otherwise.         *)

\* A form without the check; C4_NoNegativeStock tells it from
\* CleanCantidadActual.
SinValidar(cantidad) == TRUE

\* LoteForm.clean_cantidad_actual: the quantity received must be > 0.
CleanCantidadActual(cantidad) == cantidad > 0

\* CargarLoteView.form_valid: a valid form inserts a new Lote row; an
\* invalid one is shown again and nothing is saved.
CargarLote(forms) ==
    /\ NoLocks
    /\ db.nLotes < MaxLotes
    /\ \E form \in forms :
          IF CleanCantidadActual(form.cantidad_actual)
          THEN LET id == db.nLotes + 1
                   lote == NuevoLote(form.producto, form.cantidad_actual,
                                     form.precio_compra, form.fecha_vencimiento)
                   lotes == [l \in DOMAIN db.lotes \cup {id} |->
                               IF l = id THEN lote ELSE db.lotes[l]]
               IN  /\ db' = [db EXCEPT !.lotes = lotes, !.nLotes = id]
                   /\ wdb' = db'
          ELSE UNCHANGED <<db, wdb>>
    /\ UNCHANGED <<lock, pc, req, loc, resp>>

\* LoteForm.clean_fecha_vencimiento: an expiry date, if given, must not be
\* before today.
CleanFechaVencimiento(fecha_vencimiento, hoy) ==
    fecha_vencimiento = NULL \/ fecha_vencimiento >= hoy

\* CargarLoteView on a day on which some of the forms carry a past date:
\* those are shown again and nothing is saved.
CargarLoteEl(hoy, forms) ==
    CargarLote({form \in forms : CleanFechaVencimiento(form.fecha_vencimiento, hoy)})

\* lote_delete: the row is deleted.
LoteDelete ==
    /\ NoLocks
    /\ \E pk \in DOMAIN db.lotes :
          /\ db' = [db EXCEPT !.lotes = [l \in DOMAIN db.lotes \ {pk} |-> db.lotes[l]]]
          /\ wdb' = db'
    /\ UNCHANGED <<lock, pc, req, loc, resp>>

----------------------------------------------------------------------------
(* RealizarCierreView.post: one write transaction, like the stock views.   *)

\* The pending sales that still have a payment method.
VentasConMetodo(ventas) == {v \in DOMAIN ventas : ventas[v].cierre = 0 /\ ventas[v].metodo_pago # 0}

\* Venta.objects.filter(cierre__isnull=True)
VentasACerrar(ventas) == {v \in DOMAIN ventas : ventas[v].cierre = 0}

RECURSIVE SumaDeTodas(_, _)
\* A total over every sale of the table, whatever the ids.
SumaDeTodas(ventas, ids) ==
    IF ventas = <<>> THEN 0
    ELSE Head(ventas).total + SumaDeTodas(Tail(ventas), ids)

RECURSIVE SumTotal(_, _)
\* .aggregate(total=Sum('total')) over the sales ids
SumTotal(ventas, ids) ==
    IF ids = {} THEN 0
    ELSE LET v == CHOOSE x \in ids : TRUE
         IN  ventas[v].total + SumTotal(ventas, ids \ {v})

RECURSIVE SumMontos(_, _)
SumMontos(montos, metodos) ==
    IF metodos = {} THEN 0
    ELSE LET m == CHOOSE x \in metodos : TRUE
         IN  montos[m] + SumMontos(montos, metodos \ {m})

\* The pending sales are totalled, as a whole and per payment method; the
\* counted amount of each method with sales is read from the form; the
\* CierreCaja row and one DetalleCierre row per method are inserted and the
\* pending sales are linked to the closing.  Without pending sales the view
\* only warns.
RealizarCierre(usuario, contados) ==
    /\ NoLocks
    /\ LET ventas_a_cerrar == VentasACerrar(db.ventas)
           metodos_pago_con_ventas ==
               {m \in db.metodos : \E v \in ventas_a_cerrar : db.ventas[v].metodo_pago = m}
       IN  /\ ventas_a_cerrar # {}
           /\ \E montos \in [metodos_pago_con_ventas -> contados] :
                 LET total_sistema_final == SumTotal(db.ventas, ventas_a_cerrar)
                     total_arqueo_calculado == SumMontos(montos, metodos_pago_con_ventas)
                     id == Len(db.cierres) + 1
                     cierre == [usuario |-> usuario,
                                total_sistema |-> total_sistema_final,
                                total_arqueo |-> total_arqueo_calculado,
                                diferencia |-> total_arqueo_calculado - total_sistema_final]
                     detalles_para_guardar ==
                         {[cierre |-> id, metodo_pago |-> m,
                           monto_sistema |->
                               SumTotal(db.ventas,
                                        {v \in ventas_a_cerrar : db.ventas[v].metodo_pago = m}),
                           monto_arqueo |-> montos[m]] : m \in metodos_pago_con_ventas}
                 IN  db' = [db EXCEPT
                              !.cierres = Append(@, cierre),
                              !.detalles_cierre = @ \cup detalles_para_guardar,
                              !.ventas = [v \in DOMAIN db.ventas |->
                                            IF v \in ventas_a_cerrar
                                            THEN [db.ventas[v] EXCEPT !.cierre = id]
                                            ELSE db.ventas[v]]]
           /\ wdb' = db'
    /\ UNCHANGED <<lock, pc, req, loc, resp>>

----------------------------------------------------------------------------
(* RealizarCierreView.post, one action per database step, for closings     *)
(* that run next to checkouts and to other closings.                        *)

\* A counted amount as the form carries it.  A number is kept in thousandths
\* of the currency unit, since the form may carry more decimals than the
\* columns keep.  "texto" is text that Decimal() cannot parse; "excede" is a
\* number of more than 8 integer digits, which fits CierreCaja's columns
\* (max_digits=12) but not DetalleCierre's (max_digits=10): its digits are
\* not kept, valor only stands for them.
Numero(valor) == [clase |-> "numero", valor |-> valor]
Texto == [clase |-> "texto", valor |-> 0]
Desborda == [clase |-> "excede", valor |-> 0]

\* Tenths of a cent per cent.
Decimos == 10

\* A money column stores a value given in thousandths rounded to cents.
GuardarMonto(x) == RoundHalfEven(x, Decimos)

\* The messages of the view: success, warning (nothing pending), error.
CierreExitoso == [NoResp EXCEPT !.status = "success", !.kind = "Cierre"]
NadaQueCerrar == [NoResp EXCEPT !.status = "warning", !.kind = "NothingToClose"]
ErrorCierre == [NoResp EXCEPT !.status = "error", !.kind = "ErrorCierre"]

\* The view without its check for pending sales.
SinComprobar(ventas_a_cerrar) == FALSE
\* if not ventas_a_cerrar.exists()
SinVentas(ventas_a_cerrar) == ventas_a_cerrar = {}

\* MetodoPago.objects.filter(id__in=mapa_subtotales_sistema.keys()): the rows
\* of MetodoPago some pending sale refers to.  A sale whose method was deleted
\* has metodo_pago NULL (0), which is the id of no row.
MetodosPagoConVentas(d, ventas_a_cerrar) ==
    {m \in d.metodos : \E v \in ventas_a_cerrar : d.ventas[v].metodo_pago = m}

RECURSIVE SumContado(_, _)
\* total_arqueo_calculado += monto_contado, in thousandths
SumContado(montos, metodos) ==
    IF metodos = {} THEN 0
    ELSE LET m == CHOOSE x \in metodos : TRUE
         IN  montos[m].valor + SumContado(montos, metodos \ {m})

\* The variance with its sign turned.
DiferenciaInvertida(total_arqueo_calculado, total_sistema_final) ==
    total_sistema_final * Decimos - total_arqueo_calculado
\* diferencia_final = total_arqueo_calculado - total_sistema_final, in
\* thousandths (total_sistema_final is a sum of stored totals, in cents).
DiferenciaFinal(total_arqueo_calculado, total_sistema_final) ==
    total_arqueo_calculado - total_sistema_final * Decimos

\* CierreCaja.objects.create(...) as the columns keep it.
NuevoCierre(usuario, total_sistema_final, total_arqueo_calculado) ==
    [usuario |-> usuario,
     total_sistema |-> total_sistema_final,
     total_arqueo |-> GuardarMonto(total_arqueo_calculado),
     diferencia |-> GuardarMonto(DiferenciaFinal(total_arqueo_calculado,
                                                 total_sistema_final))]

\* DetalleCierre.diferencia
DetalleDiferencia(detalle) == detalle.monto_arqueo - detalle.monto_sistema

\* The request enters the view and its atomic block.
CierreStart(p, max) ==
    /\ pc[p] = "idle"
    /\ Len(db.cierres) < max
    /\ pc' = [pc EXCEPT ![p] = "c_leer"]
    /\ UNCHANGED <<db, wdb, lock, req, loc, resp>>

\* Steps 1 to 3: the reads.  The first SELECT takes the SHARED lock, so all
\* of them see the same rows.  With no pending sale the view warns and
\* returns; otherwise it totals the pending sales and parses the counted
\* amount of each method with sales.  Decimal() raises InvalidOperation on
\* text, which is no ValueError: the handler of line 146 does not catch it
\* and the outer one reports it.
CierreLeer(p, contados) ==
    /\ pc[p] = "c_leer"
    /\ LET ventas_a_cerrar == VentasACerrar(db.ventas)
           metodos_pago_con_ventas == MetodosPagoConVentas(db, ventas_a_cerrar)
       IN  IF SinVentas(ventas_a_cerrar)
           THEN /\ pc' = [pc EXCEPT ![p] = "done"]
                /\ resp' = [resp EXCEPT ![p] = NadaQueCerrar]
                /\ UNCHANGED <<db, wdb, lock, req, loc>>
           ELSE \E montos \in [metodos_pago_con_ventas -> contados] :
                  IF \E m \in metodos_pago_con_ventas : montos[m].clase = "texto"
                  THEN Rollback(p, ErrorCierre)
                  ELSE /\ lock' = [lock EXCEPT ![p] = "shared"]
                       /\ req' = [req EXCEPT ![p] = montos]
                       /\ loc' = [loc EXCEPT ![p] =
                            [i |-> 0, venta |-> 0, cierre |-> 0,
                             total_sistema_final |-> SumTotal(db.ventas, ventas_a_cerrar),
                             total_arqueo_calculado |->
                                 SumContado(montos, metodos_pago_con_ventas),
                             detalles_para_guardar |->
                                 {[metodo_pago |-> m,
                                   monto_sistema |->
                                       SumTotal(db.ventas,
                                                {v \in ventas_a_cerrar :
                                                    db.ventas[v].metodo_pago = m}),
                                   monto_arqueo |-> montos[m]] :
                                      m \in metodos_pago_con_ventas}]]
                       /\ pc' = [pc EXCEPT ![p] = "c_crear"]
                       /\ UNCHANGED <<db, wdb, resp>>

\* The closing without its atomic block: the writes made before the
\* exception stay.
CierreSinAtomic(p) == SinRollback(p, ErrorCierre)
\* An exception inside the atomic block of the closing: ROLLBACK, and the
\* outer except reports the error.
CierreFalla(p) == Rollback(p, ErrorCierre)

\* Step 4: the CierreCaja row is inserted, the transaction's first write.
CierreCrear(p) ==
    /\ pc[p] = "c_crear"
    /\ IF OthersReserved(p)
       THEN CierreFalla(p)
       ELSE /\ wdb' = [db EXCEPT !.cierres =
                          Append(@, NuevoCierre(p, loc[p].total_sistema_final,
                                                loc[p].total_arqueo_calculado))]
            /\ lock' = [lock EXCEPT ![p] = "reserved"]
            /\ loc' = [loc EXCEPT ![p].cierre = Len(db.cierres) + 1]
            /\ pc' = [pc EXCEPT ![p] = "c_detalles"]
            /\ UNCHANGED <<db, req, resp>>

\* Step 5: the DetalleCierre rows are saved.  An amount that does not fit
\* the column makes the save raise.
CierreGuardarDetalles(p) ==
    /\ pc[p] = "c_detalles"
    /\ IF \E detalle \in loc[p].detalles_para_guardar : detalle.monto_arqueo.clase = "excede"
       THEN CierreFalla(p)
       ELSE /\ wdb' = [wdb EXCEPT !.detalles_cierre = @ \cup
                          {[cierre |-> loc[p].cierre,
                            metodo_pago |-> detalle.metodo_pago,
                            monto_sistema |-> detalle.monto_sistema,
                            monto_arqueo |-> GuardarMonto(detalle.monto_arqueo.valor)] :
                               detalle \in loc[p].detalles_para_guardar}]
            /\ pc' = [pc EXCEPT ![p] = "c_update"]
            /\ UNCHANGED <<db, lock, req, loc, resp>>

\* Step 6: ventas_a_cerrar.update(cierre=cierre).  The queryset is evaluated
\* again: UPDATE ... WHERE cierre_id IS NULL.
CierreUpdateVentas(p) ==
    /\ pc[p] = "c_update"
    /\ wdb' = [wdb EXCEPT !.ventas =
                  [v \in DOMAIN wdb.ventas |->
                      IF v \in VentasACerrar(wdb.ventas)
                      THEN [wdb.ventas[v] EXCEPT !.cierre = loc[p].cierre]
                      ELSE wdb.ventas[v]]]
    /\ pc' = [pc EXCEPT ![p] = "c_commit"]
    /\ UNCHANGED <<db, lock, req, loc, resp>>

\* Step 7: the atomic block ends with COMMIT.
CierreCommit(p) ==
    /\ pc[p] = "c_commit"
    /\ ~OthersLocked(p)
    /\ db' = wdb
    /\ lock' = [lock EXCEPT ![p] = "none"]
    /\ pc' = [pc EXCEPT ![p] = "done"]
    /\ resp' = [resp EXCEPT ![p] = CierreExitoso]
    /\ UNCHANGED <<wdb, req, loc>>

\* COMMIT outwaits the connection's timeout while another connection reads.
CierreCommitLocked(p) ==
    /\ pc[p] = "c_commit"
    /\ OthersLocked(p)
    /\ CierreFalla(p)

----------------------------------------------------------------------------
(* The Django admin. *)

\* MetodoPagoAdmin, delete: refused while a DetalleCierre refers to the row
\* (PROTECT); the sales that refer to it keep existing with metodo_pago NULL
\* (SET_NULL).
MetodoPagoDelete ==
    /\ NoLocks
    /\ \E m \in db.metodos :
          /\ \A detalle \in db.detalles_cierre : detalle.metodo_pago # m
          /\ db' = [db EXCEPT
                      !.metodos = @ \ {m},
                      !.activos = @ \ {m},
                      !.ventas = [v \in DOMAIN db.ventas |->
                                    IF db.ventas[v].metodo_pago = m
                                    THEN [db.ventas[v] EXCEPT !.metodo_pago = 0]
                                    ELSE db.ventas[v]]]
          /\ wdb' = db'
    /\ UNCHANGED <<lock, pc, req, loc, resp>>

\* MetodoPagoAdmin, change list: list_editable lets a staff user tick or
\* untick is_active of a row.
MetodoPagoChangeList ==
    /\ NoLocks
    /\ \E m \in db.metodos :
          /\ db' = [db EXCEPT !.activos = IF m \in @ THEN @ \ {m} ELSE @ \cup {m}]
          /\ wdb' = db'
    /\ UNCHANGED <<lock, pc, req, loc, resp>>

\* VentaAdmin, change: readonly_fields leaves descuento and cierre in the
\* form; the sale is saved with the closing chosen there, or with none.
VentaAdminChange ==
    /\ NoLocks
    /\ \E v \in DOMAIN db.ventas, cierre \in 0..Len(db.cierres) :
          /\ db.ventas[v].cierre # cierre
          /\ db' = [db EXCEPT !.ventas[v].cierre = cierre]
          /\ wdb' = db'
    /\ UNCHANGED <<lock, pc, req, loc, resp>>

\* VentaAdmin, change: descuento is the other field readonly_fields leaves
\* in the form; the sale is saved with the discount typed there (none, or
\* 50.00), its total as it was.
VentaAdminDescuento ==
    /\ NoLocks
    /\ \E v \in DOMAIN db.ventas, descuento \in {0, 5000} :
          /\ db.ventas[v].descuento # descuento
          /\ db' = [db EXCEPT !.ventas[v].descuento = descuento]
          /\ wdb' = db'
    /\ UNCHANGED <<lock, pc, req, loc, resp>>

\* LoteAdmin and ProductoAdmin's LoteInline, change: the forms are the
\* admin's own, not LoteForm, and cantidad_actual is one of their fields; the
\* batch is saved with the quantity typed there (5 units, or -1).
LoteAdminChange ==
    /\ NoLocks
    /\ \E l \in DOMAIN db.lotes, cantidad \in {5000, -1000} :
          /\ db.lotes[l].cantidad_actual # cantidad
          /\ db' = [db EXCEPT !.lotes[l].cantidad_actual = cantidad]
          /\ wdb' = db'
    /\ UNCHANGED <<lock, pc, req, loc, resp>>

----------------------------------------------------------------------------
(* One till: requests arrive one after the other; stock is received,       *)
(* batches are deleted and the cash is closed in between.                   *)

Next ==
    \/ \E p \in {1} :
          \/ PosStart(p, Carts, MaxVentas)
          \/ PosValidar(p)
          \/ PosCrearVenta(p, Pagos)
          \/ PosFefo(p)
          \/ PosCommit(p)
          \/ PosReturn(p)
    \/ CargarLote(LoteForms)
    \/ LoteDelete
    \/ RealizarCierre(1, MontosContados)

Spec == Init /\ [][Next]_vars

----------------------------------------------------------------------------
(* Two tills on the stock of the spec's scenario: product 1 with Batch1    *)
(* (5 units, cost 10.00, expiring first) and Batch2 (10 units, cost        *)
(* 12.00).  Each till sends one checkout of 5, 8 or 20 units at 20.00,     *)
(* paid with the existing method, and the two run interleaved.             *)

EscenarioLotes ==
    <<NuevoLote(1, 5000, 1000, 1), NuevoLote(1, 10000, 1200, 2)>>

EscenarioDb == [EmptyDb EXCEPT !.lotes = EscenarioLotes, !.nLotes = Len(EscenarioLotes)]

EscenarioCarts ==
    {<<[key |-> "1", quantity |-> q, price |-> 2000]>> : q \in {5000, 8000, 20000}}

EscenarioPagos == {[metodoPagoId |-> 1, clienteId |-> 0, discount |-> 0]}

InitEscenario ==
    /\ db = EscenarioDb
    /\ wdb = EscenarioDb
    /\ Idle

NextEscenario ==
    \E p \in Procs :
        \/ PosStart(p, EscenarioCarts, MaxVentas)
        \/ PosValidar(p)
        \/ PosCrearVenta(p, EscenarioPagos)
        \/ PosFefo(p)
        \/ PosCommit(p)
        \/ PosCommitLocked(p)

SpecEscenario == InitEscenario /\ [][NextEscenario]_vars

----------------------------------------------------------------------------
(* The cash register, on a stock of 3 units of product 1.                  *)

\* Sales committed, and closings committed, in one behaviour.
MaxVentasCaja == 2
MaxCierres == 2

CajaDb == [EmptyDb EXCEPT !.lotes = <<NuevoLote(1, 3000, 1000, 1)>>, !.nLotes = 1]

InitCaja ==
    /\ db = CajaDb
    /\ wdb = CajaDb
    /\ Idle

\* Two threads, each serving checkouts and closings, interleaved step by
\* step.  The checkouts sell 1 unit at 100.00 or at 50.00; the closings
\* count 95.00 or an amount of too many digits.
CajaCarts ==
    {<<[key |-> "1", quantity |-> 1000, price |-> precio]>> : precio \in {10000, 5000}}
CajaPagos == [metodoPagoId : {1}, clienteId : {0}, discount : {0}]
CajaContados == {Numero(95000), Desborda}

NextCaja ==
    \E p \in Procs :
        \/ PosStart(p, CajaCarts, MaxVentasCaja)
        \/ PosValidar(p)
        \/ PosCrearVenta(p, CajaPagos)
        \/ PosFefo(p)
        \/ PosCommit(p)
        \/ PosCommitLocked(p)
        \/ CierreStart(p, MaxCierres)
        \/ CierreLeer(p, CajaContados)
        \/ CierreCrear(p)
        \/ CierreGuardarDetalles(p)
        \/ CierreUpdateVentas(p)
        \/ CierreCommit(p)
        \/ CierreCommitLocked(p)
        \/ PosReturn(p)

SpecCaja == InitCaja /\ [][NextCaja]_vars

\* One thread serving checkouts and closings one after the other, while
\* payment methods may be deleted in the admin.  The checkouts sell 1 unit
\* at 100.00 or at 50.00 with either payment method; the closings count
\* 95.000, 55.000, 95.005, 55.005, text, or an amount of too many digits.
ArqueoCarts == CajaCarts
ArqueoPagos == [metodoPagoId : MetodosPago, clienteId : {0}, discount : {0}]
ArqueoContados ==
    {Numero(95000), Numero(55000), Numero(95005), Numero(55005), Texto, Desborda}

NextArqueo ==
    \/ \E p \in {1} :
          \/ PosStart(p, ArqueoCarts, MaxVentasCaja)
          \/ PosValidar(p)
          \/ PosCrearVenta(p, ArqueoPagos)
          \/ PosFefo(p)
          \/ PosCommit(p)
          \/ CierreStart(p, MaxCierres)
          \/ CierreLeer(p, ArqueoContados)
          \/ CierreCrear(p)
          \/ CierreGuardarDetalles(p)
          \/ CierreUpdateVentas(p)
          \/ CierreCommit(p)
          \/ PosReturn(p)
    \/ MetodoPagoDelete

SpecArqueo == InitCaja /\ [][NextArqueo]_vars

\* One thread serving checkouts and closings one after the other, and a
\* staff user editing sales in the admin in between.
AdminCarts == {<<[key |-> "1", quantity |-> 1000, price |-> 10000]>>}
AdminPagos == [metodoPagoId : {1}, clienteId : {0}, discount : {0}]
AdminContados == {Numero(95000)}

NextAdmin ==
    \/ \E p \in {1} :
          \/ PosStart(p, AdminCarts, MaxVentasCaja)
          \/ PosValidar(p)
          \/ PosCrearVenta(p, AdminPagos)
          \/ PosFefo(p)
          \/ PosCommit(p)
          \/ CierreStart(p, MaxCierres)
          \/ CierreLeer(p, AdminContados)
          \/ CierreCrear(p)
          \/ CierreGuardarDetalles(p)
          \/ CierreUpdateVentas(p)
          \/ CierreCommit(p)
          \/ PosReturn(p)
    \/ VentaAdminChange

SpecAdmin == InitCaja /\ [][NextAdmin]_vars

----------------------------------------------------------------------------
(* One till whose request bodies may carry text in the numeric fields, on  *)
(* the stock of 3 units of product 1.  The carts ask for 1 or 5 units, at  *)
(* 100.00 or 50.00, of product 1 or of a product that does not exist.      *)

EntradaCarts ==
    {<<[key |-> k, quantity |-> q, price |-> precio]>> :
        k \in {"1", "7"}, q \in {1000, 5000}, precio \in {10000, 5000}}
EntradaPagos == [metodoPagoId : {1, 9}, clienteId : {0}, discount : {0, 50}]

NextEntrada ==
    \E p \in {1} :
        \/ PosStart(p, EntradaCarts, MaxVentasCaja)
        \/ PosDescuentoNoNumerico(p)
        \/ PosValidar(p)
        \/ PosCantidadNoNumerica(p)
        \/ PosCrearVenta(p, EntradaPagos)
        \/ PosPrecioNoNumerico(p, EntradaPagos)
        \/ PosFefo(p)
        \/ PosCommit(p)
        \/ PosReturn(p)

SpecEntrada == InitCaja /\ [][NextEntrada]_vars

----------------------------------------------------------------------------
(* One till, and the back office in between: staff users tick and untick   *)
(* payment methods and edit sales and batches in the admin.  Stock, carts  *)
(* and payments are those of the cash register.                             *)

NextGestion ==
    \/ \E p \in {1} :
          \/ PosStart(p, CajaCarts, MaxVentasCaja)
          \/ PosValidar(p)
          \/ PosCrearVenta(p, ArqueoPagos)
          \/ PosFefo(p)
          \/ PosCommit(p)
          \/ PosReturn(p)
    \/ MetodoPagoChangeList
    \/ VentaAdminDescuento
    \/ LoteAdminChange

SpecGestion == InitCaja /\ [][NextGestion]_vars

----------------------------------------------------------------------------
(* One till on day Hoy.  Product 1 has one batch of 1 unit that was        *)
(* received before and expired on day 1; stock is received in between.     *)
(* The carts ask for half a unit, 1.5 or 4 units of product 1 at 100.00.   *)

VencidosDb == [EmptyDb EXCEPT !.lotes = <<NuevoLote(1, 1000, 1000, 1)>>, !.nLotes = 1]

InitVencidos ==
    /\ db = VencidosDb
    /\ wdb = VencidosDb
    /\ Idle

VencidosCarts ==
    {<<[key |-> "1", quantity |-> q, price |-> 10000]>> : q \in {500, 1500, 4000}}

NextVencidos ==
    \/ \E p \in {1} :
          \/ PosStart(p, VencidosCarts, MaxVentasCaja)
          \/ PosValidar(p)
          \/ PosCrearVenta(p, CajaPagos)
          \/ PosFefo(p)
          \/ PosCommit(p)
          \/ PosReturn(p)
    \/ CargarLoteEl(Hoy, LoteForms)

SpecVencidos == InitVencidos /\ [][NextVencidos]_vars

----------------------------------------------------------------------------
(* Vocabulary of the properties.  These definitions restate what the      *)
(* properties talk about directly on the tables; none of them is used by   *)
(* an action.                                                               *)

\* Request p ends in this step with a success / with an error.
Vende(p) == pc[p] # "done" /\ pc'[p] = "done" /\ resp'[p].status = "success"
Falla(p) == pc[p] # "done" /\ pc'[p] = "done" /\ resp'[p].status = "error"

\* The batches of a product, and their remaining quantities added up.
LotesDe(lotes, producto) == {l \in DOMAIN lotes : lotes[l].producto = producto}

RECURSIVE Existencia(_, _)
Existencia(lotes, ids) ==
    IF ids = {} THEN 0
    ELSE LET l == CHOOSE x \in ids : TRUE
         IN  lotes[l].cantidad_actual + Existencia(lotes, ids \ {l})

\* The stock a checkout may sell: the batches with something left.
Disponible(lotes, producto) ==
    Existencia(lotes, {l \in LotesDe(lotes, producto) : lotes[l].cantidad_actual > 0})

\* The quantity the lines from[..] of a sequence of lines record for a product.
RECURSIVE CantidadVendida(_, _, _)
CantidadVendida(detalles, producto, from) ==
    IF from > Len(detalles) THEN 0
    ELSE (IF detalles[from].producto = producto THEN detalles[from].cantidad ELSE 0)
         + CantidadVendida(detalles, producto, from + 1)

\* Sum of quantity x unit price over the lines of sale v, in 1/100000.
RECURSIVE ImporteLineas(_, _, _)
ImporteLineas(detalles, v, from) ==
    IF from > Len(detalles) THEN 0
    ELSE (IF detalles[from].venta = v
          THEN detalles[from].cantidad * detalles[from].precio_unitario_momento
          ELSE 0)
         + ImporteLineas(detalles, v, from + 1)

\* Sum of quantity taken x batch cost over what a line consumed, in 1/100000.
RECURSIVE CostoConsumido(_)
CostoConsumido(consumo) ==
    IF consumo = {} THEN 0
    ELSE LET c == CHOOSE x \in consumo : TRUE
         IN  c.cantidad * c.precio_compra + CostoConsumido(consumo \ {c})

Abs(x) == IF x < 0 THEN -x ELSE x

\* stored is the quotient n / d rounded to the nearest integer, a tie going
\* to the even one.
EsRedondeo(stored, n, d) ==
    /\ 2 * Abs(stored * d - n) <= Abs(d)
    /\ 2 * Abs(stored * d - n) = Abs(d) => stored % 2 = 0

\* Both dates are set and a is the earlier one.
VenceAntes(a, b) == a # NULL /\ b # NULL /\ a < b

----------------------------------------------------------------------------
(* Properties of the checkout with one till (Spec). *)

\* C1: Settlement is all-or-nothing.  A checkout changes the committed
\* database in one step only, the one in which it answers success; when it
\* answers Insufficient-Stock, Not-Found or Unexpected, at whatever step,
\* with the Sale header already inserted and batches already decremented or
\* not, the committed database is what it was and the uncommitted writes
\* are gone: no Sale, no Sale Line, no changed Batch.
C1_AllOrNothing ==
    [][\A p \in Procs :
          /\ (pc'[p] # pc[p] /\ ~Vende(p)) => db' = db
          /\ Falla(p) => (db' = db /\ wdb' = db)]_vars

\* A checkout failed with Unexpected on its second line, after the header was
\* inserted and the first line had taken stock, and no sale is in the database.
C1_Witness ==
    \E p \in Procs :
        /\ pc[p] = "done" /\ resp[p].kind = "Unexpected"
        /\ loc[p].venta > 0 /\ loc[p].i = 2
        /\ req[p][1].quantity > 0 /\ ProductoGet(req[p][1].key) # 0
        /\ db.ventas = <<>> /\ db.detalles = <<>>
        /\ wdb = db

\* C3 (as the specification states it): stock conservation.  In the step
\* that commits a checkout, for every product, the product's stock before
\* minus its stock after equals the quantity the new Sale's lines record for
\* that product.
C3_Conservation ==
    [][\A p \in Procs :
          Vende(p) =>
             \A producto \in Productos :
                 Existencia(db.lotes, LotesDe(db.lotes, producto))
                   - Existencia(db'.lotes, LotesDe(db'.lotes, producto))
                 = CantidadVendida(db'.detalles, producto, Len(db.detalles) + 1)]_vars

C5_Fefo ==
    [][\A p \in Procs :
          pc[p] = "fefo" =>
             \A l \in DOMAIN wdb.lotes :
                 wdb'.lotes[l].cantidad_actual < wdb.lotes[l].cantidad_actual =>
                    \A m \in LotesDe(wdb.lotes, wdb.lotes[l].producto) :
                        VenceAntes(wdb.lotes[m].fecha_vencimiento,
                                   wdb.lotes[l].fecha_vencimiento)
                          => wdb'.lotes[m].cantidad_actual = 0]_vars

\* A committed sale whose line took stock from two batches with different
\* expiry dates: the earlier one is empty, the later one is not.
C5_Witness ==
    \E p \in Procs :
        /\ pc[p] = "done" /\ resp[p].status = "success"
        /\ \E k \in DOMAIN db.consumos : \E a, b \in db.consumos[k] :
              /\ a.lote \in DOMAIN db.lotes /\ b.lote \in DOMAIN db.lotes
              /\ VenceAntes(db.lotes[a.lote].fecha_vencimiento,
                            db.lotes[b.lote].fecha_vencimiento)
              /\ db.lotes[a.lote].cantidad_actual = 0
              /\ db.lotes[b.lote].cantidad_actual > 0

\* C6 (as the specification states it): the unit cost a Sale Line records,
\* times the line's quantity, is exactly the sum over the consumed batches of
\* quantity taken x batch cost.
C6_ExactAverage ==
    \A k \in DOMAIN db.detalles :
        db.detalles[k].precio_compra_momento * db.detalles[k].cantidad
          = CostoConsumido(db.consumos[k])

\* C6: the unit cost a Sale Line records is the sum over the consumed batches
\* of quantity taken x batch cost, divided by the line's quantity and rounded
\* to the cent, a tie going to the even cent.
C6_RoundedAverage ==
    \A k \in DOMAIN db.detalles :
        EsRedondeo(db.detalles[k].precio_compra_momento,
                   CostoConsumido(db.consumos[k]), db.detalles[k].cantidad)

\* A line of 1.5 units that took 1 unit at 10.01 and 0.5 at 10.00: the average
\* 10.00666... is recorded as 10.01.
C6_Witness ==
    \E k \in DOMAIN db.detalles :
        /\ Cardinality(db.consumos[k]) = 2
        /\ CostoConsumido(db.consumos[k]) = 1000 * 1001 + 500 * 1000
        /\ db.detalles[k].cantidad = 1500
        /\ db.detalles[k].precio_compra_momento = 1001

\* C8 (as the specification states it): batches without expiry date sort
\* last.  A cart line takes stock from a batch without expiry date only if
\* every batch of the product that has an expiry date is left empty.
C8_NullLast ==
    [][\A p \in Procs :
          pc[p] = "fefo" =>
             \A l \in DOMAIN wdb.lotes :
                 (/\ wdb'.lotes[l].cantidad_actual < wdb.lotes[l].cantidad_actual
                  /\ wdb.lotes[l].fecha_vencimiento = NULL) =>
                    \A m \in LotesDe(wdb.lotes, wdb.lotes[l].producto) :
                        wdb.lotes[m].fecha_vencimiento # NULL
                          => wdb'.lotes[m].cantidad_actual = 0]_vars

\* The amount a Sale should total, in 1/100000: the lines' quantity x unit
\* price minus the discount, and 0 when that is negative.
ImporteNeto(v) ==
    LET t == ImporteLineas(db.detalles, v, 1) - db.ventas[v].descuento * Milesimas
    IN  IF t < 0 THEN 0 ELSE t

Excede(lotes, item) ==
    /\ ProductoGet(item.key) # 0
    /\ item.quantity > Disponible(lotes, ProductoGet(item.key))

\* C10 (as the specification states it): a checkout whose cart has a line
\* asking for more than the product's available stock fails with
\* Insufficient-Stock and touches nothing, wherever the line is in the cart.
C10_AlwaysInsufficient ==
    [][\A p \in Procs :
          (/\ pc[p] # "done" /\ pc'[p] = "done"
           /\ \E k \in DOMAIN req[p] : Excede(db.lotes, req[p][k]))
          => (resp'[p].kind = "StockInsuficiente" /\ db' = db /\ wdb' = db)]_vars

\* C10: a checkout whose cart has a line asking for more than the product's
\* available stock fails and touches nothing.  The error is the one of the
\* first cart entry that either names no product (Not-Found) or asks for too
\* much (Insufficient-Stock with the product, the requested and the available
\* amount); so it is Insufficient-Stock whenever the entries before the
\* offending line name existing products.
C10_FirstOffender ==
    [][\A p \in Procs :
          (/\ pc[p] # "done" /\ pc'[p] = "done"
           /\ \E k \in DOMAIN req[p] : Excede(db.lotes, req[p][k]))
          => /\ db' = db /\ wdb' = db
             /\ LET malos == {k \in DOMAIN req[p] :
                                \/ ProductoGet(req[p][k].key) = 0
                                \/ Excede(db.lotes, req[p][k])}
                    k == CHOOSE x \in malos : \A y \in malos : x <= y
                    item == req[p][k]
                IN  IF ProductoGet(item.key) = 0
                    THEN resp'[p] = NotFound
                    ELSE resp'[p] =
                           [status |-> "error", kind |-> "StockInsuficiente",
                            producto |-> ProductoGet(item.key),
                            solicitado |-> item.quantity,
                            disponible |-> Disponible(db.lotes, ProductoGet(item.key))]]_vars

\* The second line of a cart asked for 1.5 of a product with 1 available and
\* the checkout answered Insufficient-Stock(1.5, 1); nothing was written.
C10_Witness ==
    \E p \in Procs :
        /\ pc[p] = "done" /\ resp[p].kind = "StockInsuficiente"
        /\ loc[p].i = 2
        /\ resp[p].solicitado = 1500 /\ resp[p].disponible = 1000
        /\ db.ventas = <<>> /\ wdb = db

----------------------------------------------------------------------------
(* Properties of two tills on the scenario's stock (SpecEscenario). *)

\* The checkout of a cart on database d with no other request running: what it
\* answers, and the database it leaves (the batches' expiry dates differ, so
\* the order of the batches is determined).
SoloResp(d, cart) ==
    LET malos == {k \in DOMAIN cart :
                    cart[k].quantity > StockTotal(d.lotes, ProductoGet(cart[k].key))}
    IN  IF malos = {} THEN Success
        ELSE LET k == CHOOSE x \in malos : \A y \in malos : x <= y
             IN  StockInsuficiente(ProductoGet(cart[k].key), cart[k].quantity,
                                   StockTotal(d.lotes, ProductoGet(cart[k].key)))

RECURSIVE SoloLineas(_, _, _, _)
SoloLineas(d, cart, k, venta) ==
    IF k > Len(cart) THEN d
    ELSE LET item == cart[k]
             producto == ProductoGet(item.key)
             orden == CHOOSE o \in LotesDisponibles(d.lotes, producto) : TRUE
             r == Descontar(d.lotes, orden, 1, item.quantity, 0)
             detalle == NuevoDetalle(venta, producto, item.quantity, item.price,
                                     PrecioCompraPromedio(r.costo, item.quantity))
         IN  SoloLineas([d EXCEPT !.lotes = r.lotes,
                                  !.detalles = Append(@, detalle),
                                  !.consumos = Append(@, Consumo(d.lotes, r.lotes))],
                        cart, k + 1, venta)

Solo(d, cart, p) ==
    IF SoloResp(d, cart) = Success
    THEN SoloLineas([d EXCEPT !.ventas = Append(@, NuevaVenta(TotalFinal(cart, 0), 0, 1, p, 0))],
                    cart, 1, Len(d.ventas) + 1)
    ELSE d

BothDone == \A p \in Procs : pc[p] = "done"

Vendio8(p) ==
    /\ pc[p] = "done" /\ resp[p].status = "success"
    /\ req[p][1].quantity = 8000 /\ req[p][1].price = 2000
    /\ Len(db.ventas) = 1

\* What the scenario's sale of 8 units does besides the line's unit cost: it
\* takes all 5 of Batch1 and 3 of Batch2, records subtotal 160.00 and leaves
\* Batch1 at 0 and Batch2 at 7.
Escenario8 ==
    /\ db.consumos[1] = {[lote |-> 1, cantidad |-> 5000, precio_compra |-> 1000],
                         [lote |-> 2, cantidad |-> 3000, precio_compra |-> 1200]}
    /\ db.detalles[1].cantidad = 8000
    /\ db.detalles[1].subtotal = 16000
    /\ db.lotes[1].cantidad_actual = 0
    /\ db.lotes[2].cantidad_actual = 7000

\* C7 (as the specification states it): the sale of 8 units takes 5 of Batch1
\* and 3 of Batch2, records line unit cost 9.25 and subtotal 160, and leaves
\* Batch1 at 0 and Batch2 at 7.
C7_AsStated ==
    \A p \in Procs :
        Vendio8(p) => (Escenario8 /\ db.detalles[1].precio_compra_momento = 925)

\* C7: the sale of 8 units takes 5 of Batch1 and 3 of Batch2, records line
\* unit cost (5*10 + 3*12) / 8 = 10.75 and subtotal 160, and leaves Batch1 at
\* 0 and Batch2 at 7.
C7_Scenario ==
    \A p \in Procs :
        Vendio8(p) => (Escenario8 /\ db.detalles[1].precio_compra_momento = 1075)

\* The sale of 8 units has been committed.
C7_Witness ==
    \E p \in Procs : Vendio8(p) /\ db.detalles[1].venta = 1 /\ db.detalles[1].producto = 1

----------------------------------------------------------------------------
(* Properties of the cash closing.                                          *)

\* Request p ends a closing in this step: with the success message, with
\* the warning, with the error message.
Cierra(p) == pc[p] = "c_commit" /\ pc'[p] = "done" /\ resp'[p].status = "success"
Avisa(p) == pc[p] = "c_leer" /\ pc'[p] = "done" /\ resp'[p].status = "warning"
FallaCierre(p) ==
    /\ pc[p] \in {"c_leer", "c_crear", "c_detalles", "c_update", "c_commit"}
    /\ pc'[p] = "done"
    /\ resp'[p].status = "error"

\* The sales of a table without a closing, and those of closing c.
Pendientes(ventas) == {v \in DOMAIN ventas : ventas[v].cierre = 0}
VentasDe(ventas, c) == {v \in DOMAIN ventas : ventas[v].cierre = c}

\* C11: a closing that succeeds with nothing else running creates one Cash
\* Closing; every sale that was pending before refers to it afterwards, with
\* or without a payment method; no sale is left pending; and the sales of
\* earlier closings keep their closing.
C11_SettlesAllPending ==
    [][\A p \in {1} :
          Cierra(p) =>
             /\ Len(db'.cierres) = Len(db.cierres) + 1
             /\ DOMAIN db'.ventas = DOMAIN db.ventas
             /\ \A v \in DOMAIN db.ventas :
                   IF db.ventas[v].cierre = 0
                   THEN db'.ventas[v].cierre = Len(db'.cierres)
                   ELSE db'.ventas[v].cierre = db.ventas[v].cierre
             /\ Pendientes(db'.ventas) = {}]_vars

\* A second closing has succeeded: the first sale stays with the first
\* closing, and the second sale, whose payment method was deleted, is with
\* the second.
C11_Witness ==
    /\ pc[1] = "done" /\ resp[1].kind = "Cierre"
    /\ Len(db.cierres) = 2
    /\ Len(db.ventas) = 2
    /\ db.ventas[1].cierre = 1
    /\ db.ventas[2].cierre = 2 /\ db.ventas[2].metodo_pago = 0

\* C12: a closing called while no sale is pending ends with the
\* Nothing-To-Close warning, which is no error, and leaves every table as it
\* was: no Cash Closing, no Closing Detail, no sale changed.
C12_NothingToClose ==
    [][\A p \in {1} :
          (pc[p] = "c_leer" /\ pc'[p] # "c_leer" /\ Pendientes(db.ventas) = {}) =>
             /\ Avisa(p)
             /\ resp'[p].kind = "NothingToClose"
             /\ db'.cierres = db.cierres
             /\ db'.detalles_cierre = db.detalles_cierre
             /\ db'.ventas = db.ventas
             /\ db' = db /\ wdb' = wdb]_vars

\* A closing was called right after another one had settled the only sale:
\* it warned, and there is still one closing.
C12_Witness ==
    /\ pc[1] = "done" /\ resp[1].kind = "NothingToClose" /\ resp[1].status = "warning"
    /\ Len(db.ventas) = 1 /\ db.ventas[1].cierre = 1
    /\ Len(db.cierres) = 1

\* The totals of a set of sales added up, and the system totals of the
\* closings from[..].
RECURSIVE TotalDe(_, _)
TotalDe(ventas, ids) ==
    IF ids = {} THEN 0
    ELSE LET v == CHOOSE x \in ids : TRUE
         IN  ventas[v].total + TotalDe(ventas, ids \ {v})

RECURSIVE TotalSistemaDesde(_, _)
TotalSistemaDesde(cierres, from) ==
    IF from > Len(cierres) THEN 0
    ELSE cierres[from].total_sistema + TotalSistemaDesde(cierres, from + 1)

\* Thread p is inside a closing.
EnCierre(p) == pc[p] \in {"c_leer", "c_crear", "c_detalles", "c_update", "c_commit"}

\* Every counted amount of p's closing form is a number that fits.
MontosValidos(p) == \A m \in DOMAIN req[p] : req[p][m].clase = "numero"

\* No sale is counted by two closings: the system totals of all closings add
\* up to the totals of the settled sales, and a settled sale keeps its
\* closing.
SinDobleCierre ==
    /\ TotalSistemaDesde(db'.cierres, 1)
         = TotalDe(db'.ventas, DOMAIN db'.ventas \ Pendientes(db'.ventas))
    /\ \A v \in DOMAIN db.ventas :
          db.ventas[v].cierre # 0 => db'.ventas[v].cierre = db.ventas[v].cierre

CierreLeido(p) == pc[p] \in {"c_crear", "c_detalles", "c_update", "c_commit"}

RECURSIVE Contado(_, _)
Contado(montos, metodos) ==
    IF metodos = {} THEN 0
    ELSE LET m == CHOOSE x \in metodos : TRUE
         IN  montos[m].valor + Contado(montos, metodos \ {m})

\* The Closing Details of closing c.
DetallesDe(detalles_cierre, c) == {d \in detalles_cierre : d.cierre = c}

\* C15 (as the specification states it): in the Cash Closing a successful
\* closing creates, the header variance is the sum of the counted amounts
\* minus the system total, and the variance of each Closing Detail is the
\* counted amount of its method minus its system subtotal.
C15_ExactVariance ==
    [][\A p \in {1} :
          Cierra(p) =>
             LET c == Len(db'.cierres)
                 cierre == db'.cierres[c]
             IN  /\ cierre.diferencia * Decimos
                      = Contado(req[p], DOMAIN req[p]) - cierre.total_sistema * Decimos
                 /\ \A d \in DetallesDe(db'.detalles_cierre, c) :
                       DetalleDiferencia(d) * Decimos
                         = req[p][d.metodo_pago].valor - d.monto_sistema * Decimos]_vars

\* C15: in the Cash Closing a successful closing creates, the header
\* variance is the sum of the counted amounts minus the system total, rounded
\* half-even to cents, and the variance of each Closing Detail is the counted
\* amount of its method, rounded half-even to cents, minus its system
\* subtotal; both are exact when the counted amounts have no more than two
\* decimals.
C15_RoundedVariance ==
    [][\A p \in {1} :
          Cierra(p) =>
             LET c == Len(db'.cierres)
                 cierre == db'.cierres[c]
                 exacta == Contado(req[p], DOMAIN req[p]) - cierre.total_sistema * Decimos
             IN  /\ EsRedondeo(cierre.diferencia, exacta, Decimos)
                 /\ exacta % Decimos = 0 => cierre.diferencia * Decimos = exacta
                 /\ {d.metodo_pago : d \in DetallesDe(db'.detalles_cierre, c)} = DOMAIN req[p]
                 /\ \A d \in DetallesDe(db'.detalles_cierre, c) :
                       LET contado == req[p][d.metodo_pago].valor
                       IN  /\ EsRedondeo(DetalleDiferencia(d) + d.monto_sistema,
                                         contado, Decimos)
                           /\ contado % Decimos = 0 =>
                                 DetalleDiferencia(d) * Decimos
                                   = contado - d.monto_sistema * Decimos]_vars

\* The closing of the example: method 1 with 100.00 in the system and 95.00
\* counted, method 2 with 50.00 and 55.00; the header variance is 0, the
\* variances of the details are -5.00 and +5.00.
C15_Witness ==
    /\ pc[1] = "done" /\ resp[1].kind = "Cierre"
    /\ Len(db.cierres) = 1
    /\ db.cierres[1].total_sistema = 15000
    /\ db.cierres[1].total_arqueo = 15000
    /\ db.cierres[1].diferencia = 0
    /\ \E a, b \in db.detalles_cierre :
          /\ a.cierre = 1 /\ a.metodo_pago = 1
          /\ a.monto_sistema = 10000 /\ a.monto_arqueo = 9500 /\ DetalleDiferencia(a) = -500
          /\ b.cierre = 1 /\ b.metodo_pago = 2
          /\ b.monto_sistema = 5000 /\ b.monto_arqueo = 5500 /\ DetalleDiferencia(b) = 500

\* The system subtotals of a set of Closing Details added up.
RECURSIVE SubtotalesSistema(_)
SubtotalesSistema(detalles) ==
    IF detalles = {} THEN 0
    ELSE LET d == CHOOSE x \in detalles : TRUE
         IN  d.monto_sistema + SubtotalesSistema(detalles \ {d})

\* C16: in every Cash Closing the header system total is the sum of the
\* system subtotals of its Closing Details, also when pending sales had lost
\* their payment method.
C16_HeaderIsSumOfDetails ==
    \A c \in 1..Len(db.cierres) :
        db.cierres[c].total_sistema
          = SubtotalesSistema(DetallesDe(db.detalles_cierre, c))

\* C17: a sale is created pending; the closing reference of a sale changes
\* only in the step that commits a successful closing, from none to the
\* closing created there; once set it is never changed nor reset, whatever
\* the operation.
C17_OneWayTransition ==
    [][/\ \A v \in DOMAIN db'.ventas \ DOMAIN db.ventas : db'.ventas[v].cierre = 0
       /\ \A v \in DOMAIN db.ventas :
             /\ v \in DOMAIN db'.ventas
             /\ db'.ventas[v].cierre # db.ventas[v].cierre =>
                   /\ db.ventas[v].cierre = 0
                   /\ \E p \in {1} : Cierra(p)
                   /\ Len(db'.cierres) = Len(db.cierres) + 1
                   /\ db'.ventas[v].cierre = Len(db'.cierres)]_vars

\* C18: a closing that fails after the check for pending sales, at whatever
\* step, leaves the committed tables as they were: no Cash Closing, no
\* Closing Detail, every pending sale still pending, no batch changed; and
\* what it had written inside its transaction is discarded.
C18_ClosingAllOrNothing ==
    [][\A p \in Procs :
          FallaCierre(p) =>
             /\ db'.cierres = db.cierres
             /\ db'.detalles_cierre = db.detalles_cierre
             /\ db'.ventas = db.ventas
             /\ db'.lotes = db.lotes
             /\ Pendientes(db'.ventas) = Pendientes(db.ventas)
             /\ lock[p] = "reserved" => wdb' = db]_vars

\* A closing failed on an amount that does not fit the detail's column,
\* after the header had been inserted as closing 1: there is no closing, no
\* detail, and the sale is pending.
C18_Witness ==
    \E p \in Procs :
        /\ pc[p] = "done" /\ resp[p].kind = "ErrorCierre"
        /\ loc[p].cierre = 1
        /\ \E d \in loc[p].detalles_para_guardar : d.monto_arqueo.clase = "excede"
        /\ db.cierres = <<>> /\ db.detalles_cierre = {}
        /\ Len(db.ventas) = 1 /\ db.ventas[1].cierre = 0
        /\ wdb = db

\* C19: a closing whose form carries text that is no number for a payment
\* method with pending sales ends with the Validation message that names
\* that method, and changes nothing.
C19_ValidationNamesMethod ==
    [][\A p \in {1} :
          (pc[p] = "c_leer" /\ pc'[p] = "done" /\ resp'[p].status = "error") =>
             /\ resp'[p].kind = "Validation"
             /\ resp'[p].producto \in MetodosPagoConVentas(db, Pendientes(db.ventas))
             /\ db' = db]_vars

----------------------------------------------------------------------------
(* Properties of the checkout's handling of its input (SpecEntrada).        *)

\* C20: every checkout that does not succeed ends with a response of the
\* handler, a specific error (Not-Found, Insufficient-Stock, Validation) or
\* the generic Unexpected one, also when the discount, a quantity or a price
\* is no number; no exception leaves the handler; and the committed tables
\* are unchanged.
C20_AlwaysReported ==
    [][\A p \in {1} :
          (pc[p] # "done" /\ pc'[p] = "done" /\ resp'[p].status # "success") =>
             /\ resp'[p].status = "error"
             /\ resp'[p].kind \in {"NotFound", "StockInsuficiente", "Validation", "Unexpected"}
             /\ db' = db]_vars

----------------------------------------------------------------------------
(* Properties of the checkout next to the back office (SpecGestion).        *)

\* C21: a checkout resolves its payment method among the active ones only:
\* every sale that is committed was paid with a method that is active, and a
\* request that names a deactivated method creates no sale.
C21_ActiveMethodOnly ==
    [][\A v \in DOMAIN db'.ventas \ DOMAIN db.ventas :
          db'.ventas[v].metodo_pago \in db.activos]_vars

----------------------------------------------------------------------------
(* Further properties of the checkout with one till (Spec).                 *)

\* The quantity a line took from the batches.
RECURSIVE CantidadTomada(_)
CantidadTomada(consumo) ==
    IF consumo = {} THEN 0
    ELSE LET c == CHOOSE x \in consumo : TRUE
         IN  c.cantidad + CantidadTomada(consumo \ {c})

\* C22: no Sale Line is persisted whose quantity exceeds what was taken from
\* the batches for it: a checkout whose batches run out before a line is
\* satisfied fails as a whole.
C22_ShortfallGuard ==
    \A k \in DOMAIN db.detalles :
        db.detalles[k].cantidad <= CantidadTomada(db.consumos[k])

C24_SaleImmutable ==
    [][\A v \in DOMAIN db.ventas :
          /\ v \in DOMAIN db'.ventas
          /\ db'.ventas[v].total = db.ventas[v].total
          /\ db'.ventas[v].descuento = db.ventas[v].descuento
          /\ db'.ventas[v].metodo_pago = db.ventas[v].metodo_pago
          /\ db'.ventas[v].vendedor = db.ventas[v].vendedor
          /\ db'.ventas[v].cliente = db.ventas[v].cliente]_vars

\* C25: the remaining quantity of an existing batch changes only in the step
\* that commits a checkout, and only downward; stock receipts, admin forms
\* and closings leave it as it is.
C25_BatchQuantityFrame ==
    [][\A l \in DOMAIN db.lotes \cap DOMAIN db'.lotes :
          db'.lotes[l].cantidad_actual # db.lotes[l].cantidad_actual =>
             /\ db'.lotes[l].cantidad_actual < db.lotes[l].cantidad_actual
             /\ \E p \in Procs : Vende(p)]_vars

\* The stored subtotals of the lines from[..] of sale v added up, in cents.
RECURSIVE SubtotalesDe(_, _, _)
SubtotalesDe(detalles, v, from) ==
    IF from > Len(detalles) THEN 0
    ELSE (IF detalles[from].venta = v THEN detalles[from].subtotal ELSE 0)
         + SubtotalesDe(detalles, v, from + 1)

\* C26: for every persisted Sale, the stored total is the sum of the stored
\* subtotals of its lines minus the stored discount, and 0 when that is
\* negative, for whole and for fractional quantities.
C26_TotalIsSumOfSubtotals ==
    \A v \in DOMAIN db.ventas :
        LET t == SubtotalesDe(db.detalles, v, 1) - db.ventas[v].descuento
        IN  db.ventas[v].total = IF t < 0 THEN 0 ELSE t

\* C27: no Sale Line with a quantity of zero or less is ever persisted.
C27_PositiveQuantities ==
    \A k \in DOMAIN db.detalles : db.detalles[k].cantidad > 0

----------------------------------------------------------------------------
(* Properties of the checkout on a day after an expiry date (SpecVencidos). *)

\* A batch is expired when its date is before today; one with no date never
\* expires.
Vencido(lote) == lote.fecha_vencimiento # NULL /\ lote.fecha_vencimiento < Hoy

\* C28: availability and FEFO do not look at the current date.  Pre-validation
\* refuses a line exactly when it asks for more than all the batches of the
\* product hold, the expired ones included, and reports that amount; and a
\* settlement step takes from a batch that is not expired only when every
\* expired batch of the product is left empty.
C28_ExpiredBatchesSell ==
    [][\A p \in Procs :
          /\ (/\ pc[p] = "validar" /\ (pc'[p] # pc[p] \/ loc'[p] # loc[p])
              /\ ProductoGet(req[p][loc[p].i].key) # 0) =>
                LET item == req[p][loc[p].i]
                    disponible == Disponible(db.lotes, ProductoGet(item.key))
                IN  /\ pc'[p] = "done" <=> item.quantity > disponible
                    /\ pc'[p] = "done" => resp'[p].disponible = disponible
          /\ pc[p] = "fefo" =>
                \A l \in DOMAIN wdb.lotes :
                    (/\ wdb'.lotes[l].cantidad_actual < wdb.lotes[l].cantidad_actual
                     /\ ~Vencido(wdb.lotes[l]))
                    => \A m \in LotesDe(wdb.lotes, wdb.lotes[l].producto) :
                          Vencido(wdb.lotes[m]) => wdb'.lotes[m].cantidad_actual = 0]_vars

----------------------------------------------------------------------------
(* Properties of the sale rows (Spec).                                     *)

\* C29: every persisted Sale owns at least one Sale Line; a checkout with an
\* empty cart creates no Sale.
C29_SaleOwnsLine ==
    \A v \in DOMAIN db.ventas : \E k \in DOMAIN db.detalles : db.detalles[k].venta = v

\* C30: for every persisted Sale the stored discount and the stored total
\* are not negative, and the total is not above what the lines alone give
\* (their quantity x unit price summed, 0 if negative, stored to the cent):
\* a negative discount in the request counts as zero.
C30_DiscountNeverRaises ==
    \A v \in DOMAIN db.ventas :
        LET lineas == ImporteLineas(db.detalles, v, 1)
        IN  /\ db.ventas[v].descuento >= 0
            /\ db.ventas[v].total >= 0
            /\ db.ventas[v].total <= GuardarDinero(IF lineas < 0 THEN 0 ELSE lineas)

\* A finished checkout and a sale of 1.5 units at 0.99 stored with discount 0
\* and total 1.48, as a request with discount -0.50 leaves it.
C30_Witness ==
    /\ \E v \in DOMAIN db.ventas :
          /\ ImporteLineas(db.detalles, v, 1) = 1500 * 99
          /\ db.ventas[v].descuento = 0
          /\ db.ventas[v].total = 148
    /\ \E p \in Procs : pc[p] = "done" /\ resp[p].status = "success"

====
